---- MODULE Spec2Model ----
(***************************************************************************)
(* Model of iohub's single-page-tiff reader (MicromanagerSequenceReader)   *)
(* and of its facade (MicromanagerReader).                                 *)
(*                                                                         *)
(* Python strings that the code searches, splits or joins (metadata keys,  *)
(* version tags, file names, paths) are sequences of one-character         *)
(* strings, so that `in`, split('-'), '-'.join and os.path.join are        *)
(* computed.  Dictionary field names that are only looked up are strings.  *)
(***************************************************************************)
EXTENDS Integers, Sequences, FiniteSets, Bags, TLC

\* ------------------------------------------------------------------ bounds
\* frames declared by the summary metadata of the acquisitions explored
MaxFrames == 2
\* channels of the acquisitions explored
MaxChannels == 2
\* slices of the acquisitions explored
MaxSlices == 1
\* records the queries may add to the log (get_num_positions logs on every
\* call made before a store exists, without end)
MaxLogged == 2

\* ----------------------------------------------------------------- strings
Digits == <<"0", "1", "2", "3", "4", "5", "6", "7", "8", "9">>

IsDigit(ch) == \E i \in 1..10 : Digits[i] = ch

DigitVal(ch) == (CHOOSE i \in 1..10 : Digits[i] = ch) - 1

\* str(n) for the small naturals of the model
RECURSIVE Str(_)
Str(n) == IF n < 10 THEN <<Digits[n + 1]>> ELSE Str(n \div 10) \o <<Digits[(n % 10) + 1]>>

\* sub in s
Contains(s, sub) ==
    \E i \in 1..(Len(s) - Len(sub) + 1) : SubSeq(s, i, i + Len(sub) - 1) = sub

\* s.split(sep) for a one-character separator
RECURSIVE Split(_, _)
Split(s, sep) ==
    IF \A i \in 1..Len(s) : s[i] # sep
    THEN <<s>>
    ELSE LET i == CHOOSE k \in 1..Len(s) : s[k] = sep /\ \A m \in 1..(k - 1) : s[m] # sep
         IN  <<SubSeq(s, 1, i - 1)>> \o Split(SubSeq(s, i + 1, Len(s)), sep)

\* sep.join(parts)
RECURSIVE Join(_, _)
Join(parts, sep) ==
    IF Len(parts) = 0 THEN <<>>
    ELSE IF Len(parts) = 1 THEN parts[1]
    ELSE parts[1] \o <<sep>> \o Join(Tail(parts), sep)

\* '-'.join(element.split('-')[1:])
Suffix(element) == Join(Tail(Split(element, "-")), "-")

\* int(s) for a string of decimal digits; -1 stands for ValueError
RECURSIVE IntOf(_)
IntOf(s) ==
    IF Len(s) = 0 \/ \E i \in 1..Len(s) : ~IsDigit(s[i]) THEN -1
    ELSE IF Len(s) = 1 THEN DigitVal(s[1])
    ELSE 10 * IntOf(SubSeq(s, 1, Len(s) - 1)) + DigitVal(s[Len(s)])

\* os.path.join(a, b) on a POSIX system
PathJoin(a, b) ==
    IF Len(b) > 0 /\ b[1] = "/" THEN b
    ELSE IF Len(a) = 0 \/ a[Len(a)] = "/" THEN a \o b
    ELSE a \o <<"/">> \o b

\* ASCII order of the characters that occur in directory names
Alphabet == <<"-", ".", "/", "0", "1", "2", "3", "4", "5", "6", "7", "8", "9",
              "D", "P", "_", "a", "d", "e", "f", "l", "o", "p", "s", "t", "u">>

Ord(ch) == CHOOSE i \in 1..Len(Alphabet) : Alphabet[i] = ch

\* a < b for Python strings
RECURSIVE LexLess(_, _)
LexLess(a, b) ==
    IF Len(b) = 0 THEN FALSE
    ELSE IF Len(a) = 0 THEN TRUE
    ELSE IF a[1] # b[1] THEN Ord(a[1]) < Ord(b[1])
    ELSE LexLess(Tail(a), Tail(b))

\* length of the longest prefix of s made of digits (d = TRUE) or of non-digits
RECURSIVE RunLen(_, _)
RunLen(s, d) ==
    IF Len(s) = 0 \/ IsDigit(s[1]) # d THEN 0 ELSE 1 + RunLen(Tail(s), d)

\* natsort's default key order: digit runs compare as integers, the text
\* between them as strings, and a name that starts with a number sorts first
RECURSIVE NatLess(_, _)
NatLess(a, b) ==
    IF Len(b) = 0 THEN FALSE
    ELSE IF Len(a) = 0 THEN TRUE
    ELSE IF IsDigit(a[1]) # IsDigit(b[1]) THEN IsDigit(a[1])
    ELSE LET d  == IsDigit(a[1])
             na == RunLen(a, d)
             nb == RunLen(b, d)
             ca == SubSeq(a, 1, na)
             cb == SubSeq(b, 1, nb)
             ra == SubSeq(a, na + 1, Len(a))
             rb == SubSeq(b, nb + 1, Len(b))
         IN  IF d
             THEN IF IntOf(ca) # IntOf(cb) THEN IntOf(ca) < IntOf(cb) ELSE NatLess(ra, rb)
             ELSE IF ca # cb THEN LexLess(ca, cb) ELSE NatLess(ra, rb)

\* natsort.natsorted(names)
RECURSIVE NatSorted(_)
NatSorted(names) ==
    IF names = {} THEN <<>>
    ELSE LET m == CHOOSE x \in names : \A y \in names \ {x} : NatLess(x, y)
         IN  <<m>> \o NatSorted(names \ {m})

\* the elements of a set of integers in increasing order
RECURSIVE Ascending(_)
Ascending(S) ==
    IF S = {} THEN <<>>
    ELSE LET m == CHOOSE x \in S : \A y \in S : x <= y
         IN  <<m>> \o Ascending(S \ {m})

\* the concatenation of a sequence of sequences
RECURSIVE Flatten(_)
Flatten(ss) == IF Len(ss) = 0 THEN <<>> ELSE ss[1] \o Flatten(Tail(ss))

\* ------------------------------------------------- string literals in use
S_Summary  == <<"S", "u", "m", "m", "a", "r", "y">>
S_Coords   == <<"C", "o", "o", "r", "d", "s">>
S_Metadata == <<"M", "e", "t", "a", "d", "a", "t", "a">>
S_FrameKey == <<"F", "r", "a", "m", "e", "K", "e", "y">>
S_FrameKey000 == <<"F", "r", "a", "m", "e", "K", "e", "y", "-", "0", "-", "0", "-", "0">>
S_MetadataDash == <<"M", "e", "t", "a", "d", "a", "t", "a", "-">>
S_beta     == <<"b", "e", "t", "a">>
S_gamma    == <<"g", "a", "m", "m", "a">>
S_1_4_22   == <<"1", ".", "4", ".", "2", "2">>
S_img      == <<"i", "m", "g">>
S_tif      == <<".", "t", "i", "f">>

\* --------------------------------------------------- acquisitions on disk
\* The acquisitions explored: a root folder with the position directories
\* p2 and (optionally) p10, each with a metadata.txt written by one
\* micro-manager version in one of its two layouts.
Root   == <<"/", "r">>
Dir_p2  == <<"p", "2">>
Dir_p10 == <<"p", "1", "0">>

VersionTags ==
    { S_1_4_22,
      <<"2", ".", "0", "-">> \o S_beta,
      <<"2", ".", "0", "-">> \o S_gamma,
      <<"1", ".", "4", ".", "2", "3">>,
      S_gamma \o <<"-">> \o S_beta }

Layouts == {"legacy", "gamma"}

\* frames recorded by one position: all declared frames, an acquisition
\* stopped after k frames, or a frame set that does not start at zero
FrameSets == {0..(k - 1) : k \in 0..MaxFrames} \cup {{MaxFrames - 1}}

\* how the entry of a position's first plane deviates from the layout
Variants == {"none", "noChannelIndex", "noFileName", "otherPairing"}

\* img_<t>_<c>_<z>.tif
ImgName(t, c, z) ==
    S_img \o <<"_">> \o Str(t) \o <<"_">> \o Str(c) \o <<"_">> \o Str(z) \o S_tif

\* the planes (t, c, z) of one position, in acquisition order
PlaneSeq(frames) ==
    Flatten([i \in 1..Cardinality(frames) |->
        Flatten([c \in 1..MaxChannels |->
            [z \in 1..MaxSlices |-> <<Ascending(frames)[i], c - 1, z - 1>>]])])

WithoutField(entry, fld) == [f \in DOMAIN entry \ {fld} |-> entry[f]]

SummaryBlock(version) ==
    [MicroManagerVersion |-> version,
     Width |-> 4, Height |-> 3,
     Frames |-> MaxFrames, Slices |-> MaxSlices, Channels |-> MaxChannels,
     UserData |-> [Width |-> [PropVal |-> <<"4">>], Height |-> [PropVal |-> <<"3">>]],
     StartTime |-> 0] @@ ("z-step_um" :> 1)

\* the entries a legacy (1.4.22 style) document holds for one plane
LegacyEntries(dir, pidx, pl, variant) ==
    LET key   == S_FrameKey \o <<"-">> \o Str(pl[1]) \o <<"-">> \o Str(pl[2]) \o <<"-">> \o Str(pl[3])
        full  == [ChannelIndex |-> pl[2], PositionIndex |-> pidx, FrameIndex |-> pl[1],
                  SliceIndex |-> pl[3], FileName |-> ImgName(pl[1], pl[2], pl[3]),
                  ROI |-> <<"0", "-", "0", "-", "4", "-", "3">>]
        entry == IF variant = "noChannelIndex" THEN WithoutField(full, "ChannelIndex")
                 ELSE IF variant = "noFileName" THEN WithoutField(full, "FileName")
                 ELSE full
        pair  == [key |-> S_Metadata \o <<"-">> \o Suffix(key),
                  val |-> [FileName |-> PathJoin(<<"a", "l", "t">>, ImgName(pl[1], pl[2], pl[3])),
                           Width |-> 4, Height |-> 3]]
    IN  <<[key |-> key, val |-> entry]>> \o (IF variant = "otherPairing" THEN <<pair>> ELSE <<>>)

\* the entries a gamma (2.0 style) document holds for one plane
GammaEntries(dir, pidx, pl, variant) ==
    LET rel    == PathJoin(dir, ImgName(pl[1], pl[2], pl[3]))
        coords == [ChannelIndex |-> pl[2], PositionIndex |-> pidx, FrameIndex |-> pl[1],
                   SliceIndex |-> pl[3]]
        centry == IF variant = "noChannelIndex" THEN WithoutField(coords, "ChannelIndex")
                  ELSE IF variant = "otherPairing"
                       THEN coords @@ [FileName |-> ImgName(pl[1], pl[2], pl[3])]
                  ELSE coords
        meta   == [FileName |-> rel, Width |-> 4, Height |-> 3]
        mentry == IF variant = "noFileName" THEN WithoutField(meta, "FileName") ELSE meta
    IN  <<[key |-> S_Coords \o <<"-">> \o rel, val |-> centry]>>
        \o (IF variant = "otherPairing" THEN <<>>
            ELSE <<[key |-> S_Metadata \o <<"-">> \o rel, val |-> mentry]>>)

\* json.load of <root>/<dir>/metadata.txt: the document's (key, value) pairs
\* in file order.  Only the first plane carries the position's variant.
MetadataTxt(a, dir) ==
    LET d      == a.dirs[dir]
        planes == PlaneSeq(d.frames)
        ent(i) == IF a.layout = "legacy"
                  THEN LegacyEntries(dir, d.pidx, planes[i], IF i = 1 THEN d.variant ELSE "none")
                  ELSE GammaEntries(dir, d.pidx, planes[i], IF i = 1 THEN d.variant ELSE "none")
    IN  <<[key |-> S_Summary, val |-> SummaryBlock(a.version)]>>
        \o Flatten([i \in 1..Len(planes) |-> ent(i)])

\* a position directory: the position index its entries report, the frames
\* it recorded, its variant, and whether its metadata.txt exists
DirSpec(pidx, frames, variant, hasMeta) ==
    [pidx |-> pidx, frames |-> frames, variant |-> variant, hasMeta |-> hasMeta]

\* the version tags and the layout each is explored with
Formats ==
    (VersionTags \X {"legacy"})
    \cup {<<v, "gamma">> : v \in {v \in VersionTags : Contains(v, S_gamma)}}

\* Every acquisition explored; listing is the order os.listdir returns.
\* p2 reports position 0 and deviates from its layout only when it recorded
\* every frame; p10 is absent, lacks its metadata.txt, or reports position 1
\* or (listed before or after p2) position 0 again.
Acquisitions ==
    LET first  == {DirSpec(0, f, "none", TRUE) : f \in FrameSets}
                  \cup {DirSpec(0, 0..(MaxFrames - 1), v, TRUE) : v \in Variants}
        second == {DirSpec(1, f, "none", TRUE) : f \in FrameSets}
                  \cup {DirSpec(1, {}, "none", FALSE)}
        clash  == {DirSpec(0, f, "none", TRUE) : f \in FrameSets}
        acqs(fm) ==
            {[version |-> fm[1], layout |-> fm[2], listing |-> <<Dir_p2>>,
              dirs |-> (Dir_p2 :> d)] : d \in first}
            \cup {[version |-> fm[1], layout |-> fm[2], listing |-> <<Dir_p2, Dir_p10>>,
                   dirs |-> (Dir_p2 :> d) @@ (Dir_p10 :> e)] : d \in first, e \in second \cup clash}
            \cup {[version |-> fm[1], layout |-> fm[2], listing |-> <<Dir_p10, Dir_p2>>,
                   dirs |-> (Dir_p2 :> d) @@ (Dir_p10 :> e)] : d \in first, e \in clash}
    IN  UNION {acqs(fm) : fm \in Formats}
        \cup {[version |-> S_1_4_22, layout |-> "legacy", listing |-> <<>>, dirs |-> <<>>]}

\* ------------------------------------------------------------ the program
VARIABLES
    acq,                \* the acquisition on disk (never written by the reader)
    extract_data,       \* the constructor's extract_data argument
    pc,                 \* how far MicromanagerReader.__init__ has come
    err,                \* the exception that left the last operation, if any
    log,                \* bag of the records logged at level ERROR, the facade's default
    mm_meta,            \* self.mm_meta (<<>> stands for None)
    schema,             \* the parser _set_mm_meta dispatched to ("" before)
    dims,               \* self.width, height, frames, slices, channels, z_step_size
    coord_to_filename,  \* self.coord_to_filename
    num_positions,      \* self.num_positions (<<>> stands for None, <<n>> for n)
    positions,          \* self.positions: position index -> store
    facade,             \* the fields MicromanagerReader copies from its reader
    nextId,             \* identity of the next array object the reader keeps
    lastCall,           \* the last query, its argument, and whether get_zarr had
                        \* returned a store for that position before
    ret,                \* what the last query returned
    partial,            \* history: what _extract_coord_to_filename returned per directory
    returned            \* history: identities get_zarr returned, per position

vars == <<acq, extract_data, pc, err, log, mm_meta, schema, dims, coord_to_filename,
          num_positions, positions, facade, nextId, lastCall, ret, partial, returned>>

EmptyMap == <<>>

NoErr == [type |-> "none", key |-> <<>>, field |-> ""]

Raise(type, key, field) == [type |-> type, key |-> key, field |-> field]

LogRec(level, msg, key) == [level |-> level, msg |-> msg, key |-> key]

\* json_[key]
Lookup(json, key) == json[CHOOSE i \in 1..Len(json) : json[i].key = key].val

\* list(json_.keys())
KeysList(json) == [i \in 1..Len(json) |-> json[i].key]

\* self.* before _set_mm_meta runs
InitDims == [width |-> 0, height |-> 0, frames |-> 0, slices |-> 0, channels |-> 0,
             z_step_size |-> -1]    \* -1 stands for None

\* ---- _get_sub_dirs: glob(<f>/*/), names only, natsorted
GetSubDirs(a) == NatSorted({a.listing[i] : i \in 1..Len(a.listing)})

\* ---- the three summary parsers; each returns the reader's dimensions after
\* ---- it ran and the exception it raised, if any
Mm1MetaParser(meta, d) ==
    LET S == Lookup(meta, S_Summary)
    IN  [err |-> NoErr,
         dims |-> [d EXCEPT !.z_step_size = S["z-step_um"], !.width = S.Width,
                            !.height = S.Height, !.frames = S.Frames,
                            !.slices = S.Slices, !.channels = S.Channels]]

Mm2BetaMetaParser(meta, d) ==
    LET S == Lookup(meta, S_Summary)
        w == IntOf(S.UserData.Width.PropVal)
        h == IntOf(S.UserData.Height.PropVal)
    IN  IF w < 0 THEN [err |-> Raise("ValueError", <<>>, "Width"),
                       dims |-> [d EXCEPT !.z_step_size = S["z-step_um"]]]
        ELSE IF h < 0 THEN [err |-> Raise("ValueError", <<>>, "Height"),
                            dims |-> [d EXCEPT !.z_step_size = S["z-step_um"], !.width = w]]
        ELSE [err |-> NoErr,
              dims |-> [d EXCEPT !.z_step_size = S["z-step_um"], !.width = w, !.height = h]]

Mm2GammaMetaParser(meta, d) ==
    LET S    == Lookup(meta, S_Summary)
        keys == KeysList(meta)
        rest(dd) == [dd EXCEPT !.z_step_size = S["z-step_um"], !.frames = S.Frames,
                               !.slices = S.Slices, !.channels = S.Channels]
    IN  IF Len(keys) < 2 THEN [err |-> Raise("IndexError", <<>>, ""), dims |-> d]
        ELSE IF Contains(keys[2], S_FrameKey000)
        THEN IF "ROI" \notin DOMAIN Lookup(meta, keys[2])
             THEN [err |-> Raise("KeyError", keys[2], "ROI"), dims |-> d]
             ELSE LET roi == Split(Lookup(meta, keys[2]).ROI, "-")
                  IN  IF Len(roi) < 3 THEN [err |-> Raise("IndexError", <<>>, ""), dims |-> d]
                      ELSE IF IntOf(roi[3]) < 0
                      THEN [err |-> Raise("ValueError", <<>>, "ROI"), dims |-> d]
                      ELSE IF Len(roi) < 4
                      THEN [err |-> Raise("IndexError", <<>>, ""),
                            dims |-> [d EXCEPT !.width = IntOf(roi[3])]]
                      ELSE IF IntOf(roi[4]) < 0
                      THEN [err |-> Raise("ValueError", <<>>, "ROI"),
                            dims |-> [d EXCEPT !.width = IntOf(roi[3])]]
                      ELSE [err |-> NoErr,
                            dims |-> rest([d EXCEPT !.width = IntOf(roi[3]),
                                                    !.height = IntOf(roi[4])])]
        ELSE IF Len(keys) < 3 THEN [err |-> Raise("IndexError", <<>>, ""), dims |-> d]
        ELSE IF Contains(keys[3], S_MetadataDash)
        THEN IF "Width" \notin DOMAIN Lookup(meta, keys[3])
             THEN [err |-> Raise("KeyError", keys[3], "Width"), dims |-> d]
             ELSE IF "Height" \notin DOMAIN Lookup(meta, keys[3])
             THEN [err |-> Raise("KeyError", keys[3], "Height"),
                   dims |-> [d EXCEPT !.width = Lookup(meta, keys[3]).Width]]
             ELSE [err |-> NoErr,
                   dims |-> rest([d EXCEPT !.width = Lookup(meta, keys[3]).Width,
                                           !.height = Lookup(meta, keys[3]).Height])]
        ELSE [err |-> Raise("ValueError", <<>>, ""), dims |-> d]

\* ---- _set_mm_meta's dispatch on Summary.MicroManagerVersion
SelectSchemaGammaFirst(mm_version) ==
    IF mm_version = S_1_4_22 THEN "mm1"
    ELSE IF Contains(mm_version, S_gamma) THEN "mm2gamma"
    ELSE IF Contains(mm_version, S_beta) THEN "mm2beta"
    ELSE "unsupported"

SelectSchema(mm_version) ==
    IF mm_version = S_1_4_22 THEN "mm1"
    ELSE IF Contains(mm_version, S_beta) THEN "mm2beta"
    ELSE IF Contains(mm_version, S_gamma) THEN "mm2gamma"
    ELSE "unsupported"

\* ---- _set_mm_meta(one_pos): [err, mm_meta, schema, dims]
SetMmMeta(a, one_pos, d) ==
    IF ~a.dirs[one_pos].hasMeta
    THEN [err |-> Raise("FileNotFoundError", PathJoin(PathJoin(Root, one_pos), <<"metadata.txt">>), ""),
          mm_meta |-> <<>>, schema |-> "", dims |-> d]
    ELSE LET meta       == MetadataTxt(a, one_pos)
             mm_version == Lookup(meta, S_Summary).MicroManagerVersion
             sel        == SelectSchema(mm_version)
             res        == IF sel = "mm1" THEN Mm1MetaParser(meta, d)
                           ELSE IF sel = "mm2beta" THEN Mm2BetaMetaParser(meta, d)
                           ELSE IF sel = "mm2gamma" THEN Mm2GammaMetaParser(meta, d)
                           ELSE [err |-> Raise("NotImplementedError", mm_version, ""), dims |-> d]
         IN  [err |-> res.err, mm_meta |-> meta, schema |-> sel, dims |-> res.dims]

\* ---- _extract_coord_to_filename
IndexFields == <<"ChannelIndex", "PositionIndex", "FrameIndex", "SliceIndex">>

\* the keys the first loop adds to coords
CoordKeys(json) ==
    {json[i].key : i \in {j \in 1..Len(json) :
        Contains(json[j].key, S_Coords) \/ Contains(json[j].key, S_FrameKey)}}

\* the meta dict of the first loop: suffix -> the last key holding "Metadata"
MetaDict(json) ==
    LET idx == {j \in 1..Len(json) : Contains(json[j].key, S_Metadata)}
        last(sfx) == CHOOSE j \in idx : Suffix(json[j].key) = sfx
                        /\ \A m \in idx : Suffix(json[m].key) = sfx => m <= j
    IN  [sfx \in {Suffix(json[j].key) : j \in idx} |-> json[last(sfx)].key]

\* "'-'.join(c.split('-')[1:]) in meta"
IsPairedNever(meta, c) == FALSE

IsPaired(meta, c) == Suffix(c) \in DOMAIN meta

\* the entry whose FileName the try block reads for the coordinate key c
FileEntry(json, meta, c) ==
    IF IsPaired(meta, c) THEN Lookup(json, meta[Suffix(c)]) ELSE Lookup(json, c)

\* the first index field the entry of c lacks ("" when it has all four)
MissingIndexField(json, c) ==
    LET e == Lookup(json, c)
        missing == {i \in 1..Len(IndexFields) : IndexFields[i] \notin DOMAIN e}
    IN  IF missing = {} THEN ""
        ELSE IndexFields[CHOOSE i \in missing : \A j \in missing : i <= j]

\* (pos_idx, time_idx, ch_idx, z_idx)
CoordinateOf(json, c) ==
    LET e == Lookup(json, c)
    IN  <<e.PositionIndex, e.FrameIndex, e.ChannelIndex, e.SliceIndex>>

\* os.path.join(parent_folder, filepath) for the coordinate key c
FilePathOf(json, meta, parent_folder, position, c) ==
    IF IsPaired(meta, c)
    THEN PathJoin(parent_folder, FileEntry(json, meta, c).FileName)
    ELSE PathJoin(parent_folder, PathJoin(position, FileEntry(json, meta, c).FileName))

\* what the second loop does when it reaches the key c: nothing is logged
\* for a missing index field (the lookups are outside the try block), the
\* missing file name is logged before the KeyError is re-raised
FailureAt(json, c) ==
    IF MissingIndexField(json, c) # ""
    THEN [err |-> Raise("KeyError", c, MissingIndexField(json, c)), log |-> EmptyBag,
          map |-> EmptyMap]
    ELSE [err |-> Raise("KeyError", c, "FileName"),
          log |-> SetToBag({LogRec("error", "metadata for supplied image coordinate not found", c)}),
          map |-> EmptyMap]

\* the ways to pick, for every coordinate, one of the keys that carry it;
\* ks is the set of <<key, coordinate>> pairs
RECURSIVE LastWriters(_, _)
LastWriters(ks, cs) ==
    IF cs = {} THEN {EmptyMap}
    ELSE LET x == CHOOSE y \in cs : TRUE
         IN  {(x :> k[1]) @@ w : k \in {k \in ks : k[2] = x}, w \in LastWriters(ks, cs \ {x})}

\* The outcomes of _extract_coord_to_filename(json_, parent_folder, position):
\* coords is a set of strings, whose iteration order is not fixed, so the loop
\* may reach any failing key first, and of several keys with one coordinate
\* any may be written last.
ExtractCoordToFilename(json, parent_folder, position) ==
    LET coords == CoordKeys(json)
        meta   == MetaDict(json)
        bad    == {c \in coords : MissingIndexField(json, c) # ""
                                  \/ "FileName" \notin DOMAIN FileEntry(json, meta, c)}
    IN  IF coords = {}
        THEN {[err |-> Raise("ValueError", <<>>, ""), log |-> EmptyBag, map |-> EmptyMap]}
        ELSE IF bad # {} THEN {FailureAt(json, c) : c \in bad}
        ELSE LET ks == {<<c, CoordinateOf(json, c)>> : c \in coords}
                 cs == {k[2] : k \in ks}
             IN  {[err |-> NoErr, log |-> EmptyBag,
                   map |-> [x \in cs |-> FilePathOf(json, meta, parent_folder, position, w[x])]] :
                      w \in LastWriters(ks, cs)}

\* ---- read_tiff_series
\* coord_filename_map.update(new)
MergeKeepFirst(old, new) == old @@ new

MergeUpdate(old, new) == new @@ old

\* the loop over the metadata files from position idx of the listing on
RECURSIVE ReadFrom(_, _, _)
ReadFrom(a, idx, acc) ==
    IF idx > Len(a.listing)
    THEN {[err |-> NoErr, log |-> acc.log, map |-> acc.map, partial |-> acc.partial,
           num_positions |-> <<Len(a.listing)>>]}
    ELSE LET position == a.listing[idx]
         IN  IF ~a.dirs[position].hasMeta
             THEN {[err |-> Raise("FileNotFoundError",
                                  PathJoin(PathJoin(Root, position), <<"metadata.txt">>), ""),
                    log |-> acc.log, map |-> EmptyMap, partial |-> acc.partial,
                    num_positions |-> <<>>]}
             ELSE UNION {
                    IF o.err.type # "none"
                    THEN {[err |-> o.err, log |-> acc.log (+) o.log, map |-> EmptyMap,
                           partial |-> acc.partial, num_positions |-> <<>>]}
                    ELSE ReadFrom(a, idx + 1,
                                  [log |-> acc.log (+) o.log,
                                   map |-> MergeUpdate(acc.map, o.map),
                                   partial |-> acc.partial @@ (position :> o.map)]) :
                    o \in ExtractCoordToFilename(MetadataTxt(a, position), Root, position) }

\* read_tiff_series(folder): [err, log, map, partial, num_positions]
ReadTiffSeries(a) ==
    IF Len(a.listing) = 0
    THEN {[err |-> Raise("FileNotFoundError", Root, ""), log |-> EmptyBag, map |-> EmptyMap,
           partial |-> EmptyMap, num_positions |-> <<>>]}
    ELSE ReadFrom(a, 1, [log |-> EmptyBag, map |-> EmptyMap, partial |-> EmptyMap])

\* ---- _dims_from_coordinates
DistinctAt(map, i) == Cardinality({coord[i] : coord \in DOMAIN map})

DimsKeepDeclared(map, d) == d

DimsFromCoordinates(map, d) ==
    [d EXCEPT !.frames = DistinctAt(map, 2), !.slices = DistinctAt(map, 4),
              !.channels = DistinctAt(map, 3)]

\* ---- _create_stores
\* shape of the array zarr.zeros allocates
StoreShape(d) == <<d.frames, d.channels, d.slices, d.height, d.width>>

\* z[c[1], c[2], c[3]] = ... raises IndexError outside the allocated array
InBounds(d, c) == c[2] < d.frames /\ c[3] < d.channels /\ c[4] < d.slices

\* the check "z == zarr.zeros(...)": an array no plane was assigned to has
\* the same store content as a fresh zarr.zeros array, any other has not
NeverUnassigned(planes) == FALSE

StillUnassigned(planes) == DOMAIN planes = {}

\* _create_stores(p): [err, store]; store is <<z>> when self.positions[p] = z ran
CreateStores(map, d, p, id) ==
    LET mine   == {c \in DOMAIN map : c[1] = p}
        planes == [pl \in {<<c[2], c[3], c[4]>> : c \in mine} |->
                      map[<<p, pl[1], pl[2], pl[3]>>]]
    IN  IF \E c \in mine : ~InBounds(d, c)
        THEN [err |-> Raise("IndexError", <<>>, ""), store |-> <<>>]
        ELSE IF StillUnassigned(planes)
        THEN [err |-> Raise("IOError", Str(p), ""), store |-> <<>>]
        ELSE [err |-> NoErr,
              store |-> <<[id |-> id, shape |-> StoreShape(d), planes |-> planes]>>]

\* ------------------------------------------------------------ the actions
\* position indices the queries are made with
QueryPositions == 0..1

NotAFolder == <<"/", "r", ".", "t", "i", "f">>

NoCall == [op |-> "", p |-> -1, again |-> FALSE]

NoRet == [kind |-> ""]

Init ==
    /\ acq \in Acquisitions
    /\ extract_data \in BOOLEAN
    /\ pc = "new"
    /\ err = NoErr
    /\ log = EmptyBag
    /\ mm_meta = <<>>
    /\ schema = ""
    /\ dims = InitDims
    /\ coord_to_filename = EmptyMap
    /\ num_positions = <<>>
    /\ positions = EmptyMap
    /\ facade = <<>>
    /\ nextId = 1
    /\ lastCall = NoCall
    /\ ret = NoRet
    /\ partial = EmptyMap
    /\ returned = [p \in QueryPositions |-> {}]

\* MicromanagerReader.__init__ up to the reader's _set_mm_meta call: the
\* dispatch on data_type, the folder check and the subdirectory walk
Open ==
    /\ pc = "new"
    /\ \E data_type \in {"singlepagetiff", "zarr"}, src \in {Root, NotAFolder} :
         /\ err' = IF data_type # "singlepagetiff" THEN Raise("NotImplementedError", <<>>, data_type)
                   ELSE IF src # Root THEN Raise("NotImplementedError", src, "")
                   ELSE IF Len(GetSubDirs(acq)) = 0 THEN Raise("AttributeError", src, "")
                   ELSE NoErr
         /\ pc' = IF err'.type = "none" THEN "meta" ELSE "failed"
    /\ UNCHANGED <<acq, extract_data, log, mm_meta, schema, dims, coord_to_filename,
                   num_positions, positions, facade, nextId, lastCall, ret,
                   partial, returned>>

\* self._set_mm_meta(pos_path), pos_path the first natsorted subdirectory
SetMeta ==
    /\ pc = "meta"
    /\ LET r == SetMmMeta(acq, GetSubDirs(acq)[1], dims)
       IN  /\ mm_meta' = r.mm_meta
           /\ schema' = r.schema
           /\ dims' = r.dims
           /\ err' = r.err
           /\ pc' = IF r.err.type = "none" THEN "coords" ELSE "failed"
    /\ UNCHANGED <<acq, extract_data, log, coord_to_filename, num_positions, positions,
                   facade, nextId, lastCall, ret, partial, returned>>

\* self.coord_to_filename = self.read_tiff_series(folder)
ReadSeries ==
    /\ pc = "coords"
    /\ \E o \in ReadTiffSeries(acq) :
         /\ err' = o.err
         /\ log' = log (+) o.log
         /\ partial' = o.partial
         /\ num_positions' = o.num_positions
         /\ coord_to_filename' = IF o.err.type = "none" THEN o.map ELSE coord_to_filename
         /\ pc' = IF o.err.type = "none" THEN "dims" ELSE "failed"
    /\ UNCHANGED <<acq, extract_data, mm_meta, schema, dims, positions, facade, nextId,
                   lastCall, ret, returned>>

\* self._dims_from_coordinates()
Dims ==
    /\ pc = "dims"
    /\ dims' = DimsFromCoordinates(coord_to_filename, dims)
    /\ pc' = "extract"
    /\ UNCHANGED <<acq, extract_data, err, log, mm_meta, schema, coord_to_filename,
                   num_positions, positions, facade, nextId, lastCall, ret,
                   partial, returned>>

\* if extract_data: self._create_stores(0)
ExtractAlways(flag) == TRUE

ShouldExtract(flag) == flag

Extract ==
    /\ pc = "extract"
    /\ IF ShouldExtract(extract_data)
       THEN LET r == CreateStores(coord_to_filename, dims, 0, nextId)
            IN  /\ err' = r.err
                /\ nextId' = IF r.err.type = "none" THEN nextId + 1 ELSE nextId
                /\ positions' = IF r.err.type = "none" THEN (0 :> r.store[1]) @@ positions
                                ELSE positions
                /\ pc' = IF r.err.type = "none" THEN "facade" ELSE "failed"
       ELSE /\ pc' = "facade"
            /\ UNCHANGED <<err, nextId, positions>>
    /\ UNCHANGED <<acq, extract_data, log, mm_meta, schema, dims, coord_to_filename,
                   num_positions, facade, lastCall, ret, partial, returned>>

\* MicromanagerReader.__init__ copies the reader's fields
FacadeCopy ==
    /\ pc = "facade"
    /\ facade' = <<[height |-> dims.height, width |-> dims.width, frames |-> dims.frames,
                    slices |-> dims.slices, channels |-> dims.channels]>>
    /\ pc' = "ready"
    /\ UNCHANGED <<acq, extract_data, err, log, mm_meta, schema, dims, coord_to_filename,
                   num_positions, positions, nextId, lastCall, ret, partial, returned>>

\* "position not in self.positions.keys()"
BuildAlways(pos, p) == TRUE

NeedsBuild(pos, p) == p \notin DOMAIN pos

\* the part get_zarr and get_array share: build the store of p unless cached
Fetch(op, p) ==
    /\ pc = "ready"
    /\ lastCall' = [op |-> op, p |-> p, again |-> op = "get_zarr" /\ returned[p] # {}]
    /\ IF NeedsBuild(positions, p)
       THEN LET r == CreateStores(coord_to_filename, dims, p, nextId)
            IN  /\ err' = r.err
                /\ nextId' = IF r.err.type = "none" THEN nextId + 1 ELSE nextId
                /\ positions' = IF r.err.type = "none" THEN (p :> r.store[1]) @@ positions
                                ELSE positions
       ELSE /\ err' = NoErr
            /\ UNCHANGED <<nextId, positions>>
    /\ UNCHANGED <<acq, extract_data, pc, log, mm_meta, schema, dims, coord_to_filename,
                   num_positions, facade, partial>>

\* get_zarr(position), through the facade
GetZarr ==
    \E p \in QueryPositions :
        /\ Fetch("get_zarr", p)
        /\ ret' = IF err'.type = "none" THEN [kind |-> "store", store |-> positions'[p]]
                  ELSE [kind |-> "raise"]
        /\ returned' = IF err'.type = "none"
                       THEN [returned EXCEPT ![p] = @ \cup {positions'[p].id}]
                       ELSE returned

\* get_array(position), through the facade: np.array(store) is a new dense copy
GetArray ==
    \E p \in QueryPositions :
        /\ Fetch("get_array", p)
        /\ ret' = IF err'.type = "none"
                  THEN [kind |-> "array", shape |-> positions'[p].shape,
                        planes |-> positions'[p].planes]
                  ELSE [kind |-> "raise"]
        /\ UNCHANGED returned

\* get_num_positions(), through the facade
GetNumPositions ==
    /\ pc = "ready"
    /\ lastCall' = [op |-> "get_num_positions", p |-> -1, again |-> FALSE]
    /\ err' = NoErr
    /\ IF DOMAIN positions # {}
       THEN /\ ret' = [kind |-> "int", n |-> num_positions[1]]
            /\ UNCHANGED log
       ELSE /\ BagCardinality(log) < MaxLogged
            /\ ret' = [kind |-> "None"]
            /\ log' = log (+) SetToBag({LogRec("error", "singlepage tiffs not loaded", <<>>)})
    /\ UNCHANGED <<acq, extract_data, pc, mm_meta, schema, dims, coord_to_filename,
                   num_positions, positions, facade, nextId, partial, returned>>

\* MicromanagerReader.shape
FacadeShapeStorageOrder(f) == <<f.frames, f.channels, f.slices, f.height, f.width>>

FacadeShape(f) == <<f.frames, f.slices, f.channels, f.height, f.width>>

\* MicromanagerSequenceReader.shape
ReaderShape(d) == <<d.frames, d.channels, d.slices, d.height, d.width>>

Shape ==
    /\ pc = "ready"
    /\ \E op \in {"shape", "reader.shape"} :
         /\ lastCall' = [op |-> op, p |-> -1, again |-> FALSE]
         /\ ret' = [kind |-> "shape",
                    shape |-> IF op = "shape" THEN FacadeShape(facade[1]) ELSE ReaderShape(dims)]
    /\ err' = NoErr
    /\ UNCHANGED <<acq, extract_data, pc, log, mm_meta, schema, dims, coord_to_filename,
                   num_positions, positions, facade, nextId, partial, returned>>

Next ==
    \/ Open
    \/ SetMeta
    \/ ReadSeries
    \/ Dims
    \/ Extract
    \/ FacadeCopy
    \/ GetZarr
    \/ GetArray
    \/ GetNumPositions
    \/ Shape

Spec == Init /\ [][Next]_vars

\* ------------------------------------------------------------- the claims
\* the values observed at index i of the keys of the coordinate map
Observed(i) == {coord[i] : coord \in DOMAIN coord_to_filename}

\* the frames recorded on disk by the listed position directories
RecordedFrames == UNION {acq.dirs[acq.listing[i]].frames : i \in 1..Len(acq.listing)}

\* C1: once a store for a position is built it is never rebuilt or replaced:
\* every step keeps each built position and its store object, and all the
\* stores get_zarr returned for one position are one object.
C1_StoreNeverRebuilt ==
    /\ [][\A p \in DOMAIN positions :
             p \in DOMAIN positions' /\ positions'[p] = positions[p]]_vars
    /\ [](\A p \in QueryPositions : Cardinality(returned[p]) <= 1)
    /\ [](lastCall.op = "get_zarr" /\ ret.kind = "store"
            => ret.store = positions[lastCall.p] /\ returned[lastCall.p] = {ret.store.id})

\* a second get_zarr of a position returned its store while another position
\* had been built in between
C1_Witness ==
    /\ lastCall.op = "get_zarr" /\ lastCall.again /\ lastCall.p = 0
    /\ ret.kind = "store" /\ ret.store.id = 1
    /\ 1 \in DOMAIN positions /\ positions[1].id = 2

\* C2: get_zarr or get_array of a position index that no key of the
\* coordinate map carries fails with IOError (PositionNotFound) and returns
\* no store.
C2_MissingPositionFails ==
    (/\ lastCall.op \in {"get_zarr", "get_array"}
     /\ \A coord \in DOMAIN coord_to_filename : coord[1] # lastCall.p)
    => /\ ret.kind = "raise"
       /\ err.type = "IOError"
       /\ lastCall.p \notin DOMAIN positions

C2_Witness ==
    /\ lastCall.op = "get_zarr" /\ lastCall.p = 1
    /\ \A coord \in DOMAIN coord_to_filename : coord[1] # 1
    /\ err.type = "IOError"
    /\ 0 \in DOMAIN positions

\* C3: after construction the reader's (and the facade's) frame, channel and
\* slice counts are the numbers of distinct values at index 1, 2, 3 of the
\* keys of the coordinate map, and the frame count is the number of frames
\* recorded on disk, whatever the summary declared.
C3_ExtentsDerived ==
    /\ pc \in {"extract", "facade", "ready"}
        => /\ dims.frames = Cardinality(Observed(2))
           /\ dims.channels = Cardinality(Observed(3))
           /\ dims.slices = Cardinality(Observed(4))
           /\ dims.frames = Cardinality(RecordedFrames)
    /\ pc = "ready"
        => /\ facade[1].frames = Cardinality(Observed(2))
           /\ facade[1].channels = Cardinality(Observed(3))
           /\ facade[1].slices = Cardinality(Observed(4))

\* an acquisition stopped after frame k < declared, read by a parser that
\* had set the declared count
C3_Witness ==
    /\ pc = "ready"
    /\ schema \in {"mm1", "mm2gamma"}
    /\ Lookup(mm_meta, S_Summary).Frames = MaxFrames
    /\ RecordedFrames = 0..(MaxFrames - 2)
    /\ facade[1].frames = MaxFrames - 1

\* C4: in every state after construction get_num_positions returns the
\* number of position subdirectories.
C4_PositionCountAlways ==
    lastCall.op = "get_num_positions"
    => ret.kind = "int" /\ ret.n = Len(acq.listing)

\* C5: right after a successful construction the built positions are {0}
\* with extract_data and none without; during construction a store is only
\* built once the schema is parsed, the coordinate map aggregated and the
\* extents derived from it.
C5_EagerBuildAfterBarrier ==
    /\ [](pc = "facade" => DOMAIN positions = (IF extract_data THEN {0} ELSE {}))
    /\ [](pc = "ready" /\ lastCall = NoCall
            => DOMAIN positions = (IF extract_data THEN {0} ELSE {}))
    /\ [][positions' # positions /\ pc # "ready"
            => /\ pc = "extract"
               /\ mm_meta # <<>> /\ schema \in {"mm1", "mm2beta", "mm2gamma"}
               /\ num_positions # <<>> /\ coord_to_filename # EmptyMap
               /\ dims.frames = Cardinality(Observed(2))
               /\ dims.channels = Cardinality(Observed(3))
               /\ dims.slices = Cardinality(Observed(4))]_vars

C5_Witness ==
    pc = "facade" /\ extract_data /\ DOMAIN positions = {0}

\* the path the claim C6 gives for the coordinate key c of a document
ClaimedPath(json, dir, c) ==
    LET paired == {i \in 1..Len(json) : Contains(json[i].key, S_Metadata)
                                          /\ Suffix(json[i].key) = Suffix(c)}
    IN  IF paired # {}
        THEN {PathJoin(Root, json[i].val.FileName) : i \in paired}
        ELSE {PathJoin(Root, PathJoin(dir, Lookup(json, c).FileName))}

\* C6: in what the extractor returned for a directory, the path mapped at the
\* coordinate of a coordinate-class key is root joined with the FileName of
\* the Metadata-class key of equal suffix when there is one, and otherwise
\* root joined with the directory name joined with the key's own FileName.
C6_PathResolution ==
    pc = "dims" =>
        \A dir \in DOMAIN partial :
            LET json == MetadataTxt(acq, dir)
            IN  \A c \in CoordKeys(json) :
                    /\ CoordinateOf(json, c) \in DOMAIN partial[dir]
                    /\ \E k \in CoordKeys(json) :
                          /\ CoordinateOf(json, k) = CoordinateOf(json, c)
                          /\ partial[dir][CoordinateOf(json, c)] \in ClaimedPath(json, dir, k)

\* a legacy document whose first FrameKey entry is paired with a Metadata
\* entry and whose other entries are not
C6_Witness ==
    /\ pc = "dims"
    /\ acq.layout = "legacy" /\ acq.dirs[Dir_p2].variant = "otherPairing"
    /\ Dir_p2 \in DOMAIN partial
    /\ partial[Dir_p2][<<0, 0, 0, 0>>] = PathJoin(Root, PathJoin(<<"a", "l", "t">>, ImgName(0, 0, 0)))
    /\ partial[Dir_p2][<<0, 1, 0, 0>>] = PathJoin(Root, PathJoin(Dir_p2, ImgName(1, 0, 0)))

\* C7: the version tag alone selects the parser: "1.4.22" the legacy one,
\* else a tag holding "beta" the beta one, else a tag holding "gamma" the
\* gamma one; any other tag fails construction with NotImplementedError
\* (UnsupportedSchema) carrying the tag, before any coordinate map is built.
C7_SchemaSelection ==
    schema # "" =>
        LET v == acq.version
        IN  /\ v = S_1_4_22 => schema = "mm1"
            /\ v # S_1_4_22 /\ Contains(v, S_beta) => schema = "mm2beta"
            /\ v # S_1_4_22 /\ ~Contains(v, S_beta) /\ Contains(v, S_gamma) => schema = "mm2gamma"
            /\ v # S_1_4_22 /\ ~Contains(v, S_beta) /\ ~Contains(v, S_gamma)
                => /\ schema = "unsupported"
                   /\ pc = "failed"
                   /\ err.type = "NotImplementedError" /\ err.key = v
                   /\ coord_to_filename = EmptyMap /\ partial = EmptyMap
                   /\ num_positions = <<>>
            /\ schema = "unsupported" => pc = "failed"

C7_Witness ==
    /\ schema = "unsupported" /\ pc = "failed"
    /\ err.type = "NotImplementedError" /\ err.key = <<"1", ".", "4", ".", "2", "3">>

\* C8: whenever the extractor fails because a coordinate entry lacks a
\* required field, a record naming the key was logged before the failure
\* reached the caller.
C8_MissingFieldLogged ==
    (/\ pc = "failed" /\ err.type = "KeyError"
     /\ schema \in {"mm1", "mm2beta", "mm2gamma"}
     /\ err.key \in UNION {CoordKeys(MetadataTxt(acq, acq.listing[i])) : i \in 1..Len(acq.listing)})
    => \E r \in BagToSet(log) : r.level = "error" /\ r.key = err.key

C10_LaterPositionWins ==
    (Len(acq.listing) = 2 /\ DOMAIN partial = {Dir_p2, Dir_p10})
    => /\ pc # "coords"
       /\ num_positions = <<2>>
       /\ DOMAIN coord_to_filename = DOMAIN partial[Dir_p2] \cup DOMAIN partial[Dir_p10]
       /\ \A coord \in DOMAIN partial[acq.listing[2]] :
             coord_to_filename[coord] = partial[acq.listing[2]][coord]

C10_Witness ==
    /\ pc = "dims"
    /\ acq.listing = <<Dir_p10, Dir_p2>>
    /\ \E coord \in DOMAIN partial[Dir_p2] \cap DOMAIN partial[Dir_p10] :
          /\ partial[Dir_p2][coord] # partial[Dir_p10][coord]
          /\ coord_to_filename[coord] = partial[Dir_p2][coord]

\* C11: every key (p, t, c, z) of the coordinate map has t < frames,
\* c < channels and z < slices of the derived extents, so no plane
\* assignment of _create_stores falls outside the allocated array and no
\* build ends in IndexError.
C11_PlanesInsideArray ==
    /\ pc \in {"extract", "facade", "ready"}
        => \A coord \in DOMAIN coord_to_filename :
              /\ coord[2] < dims.frames
              /\ coord[3] < dims.channels
              /\ coord[4] < dims.slices
    /\ (lastCall.op \in {"get_zarr", "get_array"} \/ (pc = "failed" /\ num_positions # <<>>))
        => err.type # "IndexError"

====
